---- MODULE Spec2Model ----
(***************************************************************************)
(* Model of the pose animation controller (src/classes/animation.py) and   *)
(* of the skeleton of body parts it drives (src/classes/skeleton.py).      *)
(*                                                                         *)
(* Numbers.  The program computes in floating point; the model computes in *)
(* fixed point:                                                            *)
(*   - time (dt, transition_duration, return_delay, return_timer) is       *)
(*     counted in units of 1/300 s, so 0.12 s = 36 and 8/60 s = 40;        *)
(*   - transition_progress is counted in units of 1/ONE, ONE = 360 = 1.0;  *)
(*   - rotations and positions are counted in tenths (Q = 10) of a degree  *)
(*     or of a pixel, blends are rounded down to a tenth;                  *)
(*   - idle_time is counted in units of 1/3000 rad;                        *)
(*   - sines and cosines are counted in thousandths.                       *)
(***************************************************************************)
EXTENDS Integers, Sequences, FiniteSets, TLC

VARIABLES
    skeleton,            \* the BodyPart objects, by name
    index,               \* Skeleton.parts: the names registered
    root,                \* Skeleton.root: "None" or a part name
    root_offset,         \* Skeleton.root_offset
    drawn,               \* the parts blitted by the last Skeleton.draw
    calc,                \* arguments and result of a helper called alone
    player_2,            \* GameScene.player_2: its controller and skeleton
    current_pose,
    target_pose,
    transition_progress,
    transition_duration,
    pose_meta,
    meta_prev,           \* _meta_prev: {} is None, {m} is the dict m
    meta_applied_pose,   \* _meta_applied_pose: "None" or a pose name
    poses,
    start_pose_data,
    target_pose_data,
    auto_return,
    return_delay,
    return_timer,
    idle_time,
    files,               \* names of the pose_*.json files in assets/poses
    op,                  \* the last call made by the host
    raised,              \* the exception the last call left with, or "none"
    budget               \* calls the host may still make

ctl == <<current_pose, target_pose, transition_progress, transition_duration,
         pose_meta, meta_prev, meta_applied_pose, poses, start_pose_data,
         target_pose_data, auto_return, return_delay, return_timer, idle_time>>

body == <<index, root, root_offset, drawn>>

vars == <<skeleton, body, calc, player_2, ctl, files, op, raised, budget>>

----------------------------------------------------------------------------
(* Bounds of the model *)

MaxCalls == 6            \* calls per run
MaxRewind == 360        \* a transition_progress rewound below -MaxRewind is not followed
MaxTimer == 80            \* a return_timer lengthened beyond MaxTimer is not followed
MaxPairCalls == 5        \* calls per run of the two-player scene

----------------------------------------------------------------------------
(* Units and program constants *)

ONE == 360               \* transition_progress == 1.0
Q == 10                  \* tenths of a degree / of a pixel

DefaultTransitionDuration == 36     \* 0.12 s
DefaultReturnDelay == 40            \* 8.0 / 60.0 s
idle_sway_speed == 15               \* 1.5 rad/s, in tenths
idle_sway_amount == 15              \* 1.5, in tenths

action_poses == {"punch", "kick", "jump", "block", "hurt", "custom"}

PartNames == {"torso", "head", "right_upper_arm"}

T(rot, x, y) == [rotation |-> rot * Q, position |-> <<x * Q, y * Q>>]

get_ready ==
    [p \in PartNames |->
        CASE p = "torso" -> T(0, 0, 2)
          [] p = "head" -> T(0, 0, -70)
          [] p = "right_upper_arm" -> T(50, 76, -69)]

get_punch ==
    [p \in PartNames |->
        CASE p = "torso" -> T(0, 0, 7)
          [] p = "head" -> T(0, 0, -72)
          [] p = "right_upper_arm" -> T(-5, 76, -74)]

get_kick ==
    [p \in PartNames |->
        CASE p = "torso" -> T(-8, -15, -5)
          [] p = "head" -> T(-5, 0, -79)
          [] p = "right_upper_arm" -> T(20, 76, -68)]

(* The pose files the editor writes into assets/poses.  pose_look_up.json   *)
(* names one part and gives it a rotation only; pose_custom.json names a    *)
(* part the skeleton has not, turns the arm past the +/-180 boundary and    *)
(* carries per-pose metadata.                                               *)
LookUpFile == [p \in {"head"} |-> [rotation |-> -15 * Q]]

CustomMeta == [duration |-> 60, auto_return |-> FALSE]

CustomFile ==
    [p \in {"head", "right_upper_arm", "tail", "__meta__"} |->
        CASE p = "head" -> T(10, 0, -70)
          [] p = "right_upper_arm" -> T(-170, 76, -69)
          [] p = "tail" -> T(30, 0, 40)
          [] p = "__meta__" -> CustomMeta]

FileNames == {"look_up", "custom"}

PoseNames == {"ready", "punch", "kick", "look_up", "custom", "nope"}

DtValues == {-12, 0, 12, 40}

----------------------------------------------------------------------------
(* The controller and its skeleton as one value, so that update can call   *)
(* set_pose.                                                               *)

Self ==
    [skeleton |-> skeleton, current_pose |-> current_pose,
     target_pose |-> target_pose,
     transition_progress |-> transition_progress,
     transition_duration |-> transition_duration,
     pose_meta |-> pose_meta, meta_prev |-> meta_prev,
     meta_applied_pose |-> meta_applied_pose, poses |-> poses,
     start_pose_data |-> start_pose_data,
     target_pose_data |-> target_pose_data, auto_return |-> auto_return,
     return_delay |-> return_delay, return_timer |-> return_timer,
     idle_time |-> idle_time, raised |-> "none"]

Becomes(s) ==
    /\ skeleton' = s.skeleton
    /\ current_pose' = s.current_pose
    /\ target_pose' = s.target_pose
    /\ transition_progress' = s.transition_progress
    /\ transition_duration' = s.transition_duration
    /\ pose_meta' = s.pose_meta
    /\ meta_prev' = s.meta_prev
    /\ meta_applied_pose' = s.meta_applied_pose
    /\ poses' = s.poses
    /\ start_pose_data' = s.start_pose_data
    /\ target_pose_data' = s.target_pose_data
    /\ auto_return' = s.auto_return
    /\ return_delay' = s.return_delay
    /\ return_timer' = s.return_timer
    /\ idle_time' = s.idle_time
    /\ raised' = s.raised

----------------------------------------------------------------------------
(* Poses.get_all_poses: the hard-coded poses, then every pose_*.json file  *)

DefaultPoses ==
    [n \in {"ready", "punch", "kick"} |->
        CASE n = "ready" -> get_ready
          [] n = "punch" -> get_punch
          [] n = "kick" -> get_kick]

FileContent(n) == IF n = "custom" THEN CustomFile ELSE LookUpFile

get_all_poses(fs) ==
    [n \in DOMAIN DefaultPoses \cup fs |->
        IF n \in fs THEN FileContent(n) ELSE DefaultPoses[n]]

(* AnimationController.reload_poses: reload, move every __meta__ entry to  *)
(* pose_meta                                                               *)
reload_poses(s, fs) ==
    LET all == get_all_poses(fs)
        withMeta == {n \in DOMAIN all : "__meta__" \in DOMAIN all[n]}
    IN  [s EXCEPT
          !.poses = [n \in DOMAIN all |->
                       [k \in DOMAIN all[n] \ {"__meta__"} |-> all[n][k]]],
          !.pose_meta = [n \in withMeta |-> all[n]["__meta__"]]]

----------------------------------------------------------------------------
(* BodyPart: the objects are kept by name in one function; a part's parent *)
(* is a name or NoPart, its children are a sequence of names.              *)

NoPart == "None"

(* BodyPart.add_child *)
add_child(nodes, parent, child) ==
    [nodes EXCEPT ![parent].children = Append(@, child),
                  ![child].parent = parent]

(* BodyPart.__init__.  local_position is a list, an object a part can     *)
(* share: position_list is "own" when the list is the part's alone, or the *)
(* name of the pose of the library whose 'position' list it is.            *)
BodyPart(nodes, name, parent) ==
    LET node == [parent |-> parent, children |-> <<>>,
                 local_position |-> <<0, 0>>, position_list |-> "own",
                 local_rotation |-> 0,
                 world_position |-> <<0, 0>>, world_rotation |-> 0]
        made == [p \in DOMAIN nodes \cup {name} |->
                    IF p = name THEN node ELSE nodes[p]]
    IN  IF parent # NoPart THEN add_child(made, parent, name) ELSE made

(* math.sin and math.cos of math.radians(a), a in tenths of a degree, in   *)
(* thousandths: Bhaskara's rational approximation on each half turn, exact *)
(* at the multiples of 90 degrees                                          *)
SinHalfTurn(x) ==
    LET y == x * (1800 - x) IN (400 * y) \div ((4050000 - y) \div 10)

SinDeg1000(a) ==
    LET r == a % 3600
    IN  IF r <= 1800 THEN SinHalfTurn(r) ELSE 0 - SinHalfTurn(r - 1800)

CosDeg1000(a) == SinDeg1000(a + 900)

(* lines 52-57: local_position turned by the parent's world rotation *)
rotate(local_position, angle) ==
    <<(local_position[1] * CosDeg1000(angle)
         - local_position[2] * SinDeg1000(angle)) \div 1000,
      (local_position[1] * SinDeg1000(angle)
         + local_position[2] * CosDeg1000(angle)) \div 1000>>

(* lines 49-69: the transform of one node from its parent's *)
OwnTransform(nodes, name, root_base_position) ==
    LET self == nodes[name]
    IN  IF self.parent # NoPart
        THEN LET parent == nodes[self.parent]
                 rotated == rotate(self.local_position, parent.world_rotation)
             IN  [nodes EXCEPT
                    ![name].world_rotation =
                        parent.world_rotation + self.local_rotation,
                    ![name].world_position =
                        <<parent.world_position[1] + rotated[1],
                          parent.world_position[2] + rotated[2]>>]
        ELSE [nodes EXCEPT
                ![name].world_rotation = self.local_rotation,
                ![name].world_position =
                    <<root_base_position[1] + self.local_position[1],
                      root_base_position[2] + self.local_position[2]>>]

RECURSIVE update_transform(_, _, _)
RECURSIVE EachChild(_, _, _, _)

(* lines 71-73 *)
EachChild(nodes, name, i, root_base_position) ==
    IF i > Len(nodes[name].children) THEN nodes
    ELSE EachChild(
             update_transform(nodes, nodes[name].children[i],
                              root_base_position),
             name, i + 1, root_base_position)

(* BodyPart.update_transform *)
update_transform(nodes, name, root_base_position) ==
    EachChild(OwnTransform(nodes, name, root_base_position),
              name, 1, root_base_position)

(* Skeleton.update *)
skeleton_update(nodes, r, offset) ==
    IF r # NoPart THEN update_transform(nodes, r, offset) ELSE nodes

(* BodyPart.draw: the names blitted, in order.  'thigh' in child.name and  *)
(* 'arm' in child.name are asked of members of back_parts only.            *)
back_parts == {"left_upper_arm", "right_upper_arm", "left_thigh", "right_thigh"}
front_parts == {"left_forearm", "right_forearm"}
ThighNames == {"left_thigh", "right_thigh"}
ArmNames == {"left_upper_arm", "right_upper_arm"}

RECURSIVE draw(_, _)
RECURSIVE DrawEach(_, _, _)
RECURSIVE BackLayer(_, _, _)
RECURSIVE HeadLayer(_, _, _)
RECURSIVE FrontLayer(_, _, _)

(* part.draw() for every part of a list *)
DrawEach(nodes, list, i) ==
    IF i > Len(list) THEN <<>>
    ELSE draw(nodes, list[i]) \o DrawEach(nodes, list, i + 1)

(* lines 83-89 *)
BackLayer(nodes, name, i) ==
    LET children == nodes[name].children
    IN  IF i > Len(children) THEN <<>>
        ELSE (IF children[i] \in back_parts
              THEN <<children[i]>>
                     \o (IF children[i] \in ThighNames
                         THEN DrawEach(nodes, nodes[children[i]].children, 1)
                         ELSE <<>>)
              ELSE <<>>)
             \o BackLayer(nodes, name, i + 1)

(* lines 94-97 *)
HeadLayer(nodes, name, i) ==
    LET children == nodes[name].children
    IN  IF i > Len(children) THEN <<>>
        ELSE (IF children[i] = "head" THEN draw(nodes, children[i]) ELSE <<>>)
             \o HeadLayer(nodes, name, i + 1)

(* lines 99-105 *)
FrontLayer(nodes, name, i) ==
    LET children == nodes[name].children
    IN  IF i > Len(children) THEN <<>>
        ELSE (IF children[i] \in back_parts /\ children[i] \in ArmNames
              THEN DrawEach(nodes,
                            SelectSeq(nodes[children[i]].children,
                                      LAMBDA g : g \in front_parts), 1)
              ELSE <<>>)
             \o FrontLayer(nodes, name, i + 1)

(* the forearms are drawn with their upper arms, behind the torso *)
draw_arms_whole(nodes, name) ==
    BackLayer(nodes, name, 1) \o FrontLayer(nodes, name, 1) \o <<name>>
        \o HeadLayer(nodes, name, 1)

draw(nodes, name) ==
    BackLayer(nodes, name, 1) \o <<name>> \o HeadLayer(nodes, name, 1)
        \o FrontLayer(nodes, name, 1)

(* Skeleton.draw *)
skeleton_draw(nodes, r) == IF r # NoPart THEN draw(nodes, r) ELSE <<>>

(* The skeleton AnimatedCharacter.__init__ builds: the parts in the order  *)
(* of their construction, each with its parent                             *)
StandardParts ==
    << <<"torso", NoPart>>, <<"head", "torso">>,
       <<"left_upper_arm", "torso">>, <<"left_forearm", "left_upper_arm">>,
       <<"right_upper_arm", "torso">>, <<"right_forearm", "right_upper_arm">>,
       <<"left_thigh", "torso">>, <<"left_shin", "left_thigh">>,
       <<"right_thigh", "torso">>, <<"right_shin", "right_thigh">> >>

RECURSIVE Built(_, _)

(* the BodyPart objects after the first i constructions of a list *)
Built(list, i) ==
    IF i = 0 THEN <<>>
    ELSE BodyPart(Built(list, i - 1), list[i][1], list[i][2])

----------------------------------------------------------------------------
(* Skeleton.apply_pose, on the name index                                  *)

(* the parts the pose does not name are put back to their initial        *)
(* transform                                                               *)
apply_pose_resets(sk, pose_data) ==
    [p \in DOMAIN sk |->
        IF p \in DOMAIN pose_data
        THEN [sk[p] EXCEPT
                !.local_rotation =
                    IF "rotation" \in DOMAIN pose_data[p]
                    THEN pose_data[p].rotation ELSE @,
                !.local_position =
                    IF "position" \in DOMAIN pose_data[p]
                    THEN pose_data[p].position ELSE @]
        ELSE [sk[p] EXCEPT !.local_rotation = 0, !.local_position = <<0, 0>>]]

apply_pose(sk, pose_data) ==
    [p \in DOMAIN sk |->
        IF p \in DOMAIN pose_data
        THEN [sk[p] EXCEPT
                !.local_rotation =
                    IF "rotation" \in DOMAIN pose_data[p]
                    THEN pose_data[p].rotation ELSE @,
                !.local_position =
                    IF "position" \in DOMAIN pose_data[p]
                    THEN pose_data[p].position ELSE @,
                !.position_list =
                    IF "position" \in DOMAIN pose_data[p] THEN "own" ELSE @]
        ELSE sk[p]]

(* AnimationController._get_current_pose_data                              *)
get_current_pose_data(sk) ==
    [p \in DOMAIN sk |->
        [rotation |-> sk[p].local_rotation, position |-> sk[p].local_position]]

----------------------------------------------------------------------------
(* AnimationController.set_pose                                            *)

(* lines 320-322: the target of the transition in progress is asked again  *)
IgnoreSameTarget(s, pose_name) ==
    pose_name = s.target_pose /\ s.transition_progress < ONE

(* the settled pose is not protected *)
IgnoreSettled_Never(s, pose_name) == FALSE

(* lines 324-326: already settled in this pose, which is not 'ready'       *)
IgnoreSettled(s, pose_name) ==
    /\ pose_name = s.current_pose
    /\ pose_name # "ready"
    /\ s.transition_progress >= ONE

(* lines 348-377: the pose's metadata overrides the controller's timing    *)
ApplyMeta(s, pose_name) ==
    IF pose_name \in DOMAIN s.pose_meta /\ DOMAIN s.pose_meta[pose_name] # {}
    THEN LET meta == s.pose_meta[pose_name]
         IN  [s EXCEPT
               !.meta_prev = {[transition_duration |-> s.transition_duration,
                               auto_return |-> s.auto_return,
                               return_delay |-> s.return_delay]},
               !.transition_duration =
                   IF "duration" \in DOMAIN meta THEN meta.duration ELSE @,
               !.auto_return =
                   IF "auto_return" \in DOMAIN meta THEN meta.auto_return ELSE @,
               !.return_delay =
                   IF "return_delay" \in DOMAIN meta THEN meta.return_delay ELSE @,
               !.meta_applied_pose = pose_name]
    ELSE s

(* lines 341-346: a new target starts a transition from where the skeleton *)
(* is now                                                                  *)
StartsTransition(s, pose_name) == pose_name # s.target_pose

(* the blend starts from the old target instead of the skeleton *)
BeginTransition_OldTarget(s, pose_name) ==
    IF StartsTransition(s, pose_name)
    THEN ApplyMeta([s EXCEPT
                      !.start_pose_data = s.target_pose_data,
                      !.target_pose = pose_name,
                      !.target_pose_data = s.poses[pose_name],
                      !.transition_progress = 0],
                   pose_name)
    ELSE s

BeginTransition(s, pose_name) ==
    IF StartsTransition(s, pose_name)
    THEN ApplyMeta([s EXCEPT
                      !.start_pose_data = get_current_pose_data(s.skeleton),
                      !.target_pose = pose_name,
                      !.target_pose_data = s.poses[pose_name],
                      !.transition_progress = 0],
                   pose_name)
    ELSE s

(* the immediate switch arms the return as a settling frame does *)
SwitchImmediately_Arms(s, pose_name) ==
    [s EXCEPT !.current_pose = pose_name,
              !.target_pose = pose_name,
              !.transition_progress = ONE,
              !.return_timer =
                  IF s.auto_return /\ pose_name \in action_poses
                  THEN s.return_delay ELSE @,
              !.skeleton = apply_pose(s.skeleton, s.poses[pose_name])]

(* the parts are handed the lists of the pose, not copies of them *)
SwitchImmediately_Aliases(s, pose_name) ==
    LET sk == apply_pose(s.skeleton, s.poses[pose_name])
    IN  [s EXCEPT
          !.current_pose = pose_name,
          !.target_pose = pose_name,
          !.transition_progress = ONE,
          !.skeleton =
              [p \in DOMAIN sk |->
                  IF /\ p \in DOMAIN s.poses[pose_name]
                     /\ "position" \in DOMAIN s.poses[pose_name][p]
                  THEN [sk[p] EXCEPT !.position_list = pose_name]
                  ELSE sk[p]]]

(* lines 335-339 *)
SwitchImmediately(s, pose_name) ==
    [s EXCEPT !.current_pose = pose_name,
              !.target_pose = pose_name,
              !.transition_progress = ONE,
              !.skeleton = apply_pose(s.skeleton, s.poses[pose_name])]

(* the return timer is cancelled before the name is looked up *)
Lookup_CancelsTimer(s, fs, pose_name) ==
    IF pose_name \notin DOMAIN s.poses
    THEN [reload_poses(s, fs) EXCEPT !.return_timer = 0]
    ELSE [s EXCEPT !.return_timer = 0]

(* lines 312-314: an unknown name reloads the pose source                   *)
Lookup(s, fs, pose_name) ==
    IF pose_name \notin DOMAIN s.poses THEN reload_poses(s, fs) ELSE s

(* the idle time is reset for the rest pose too *)
CancelReturn_ResetsAlways(s, pose_name) ==
    [s EXCEPT !.return_timer = 0, !.idle_time = 0]

(* lines 328-333: cancel the return timer, reset the idle time             *)
CancelReturn(s, pose_name) ==
    [s EXCEPT !.return_timer = 0,
              !.idle_time = IF pose_name # "ready" THEN 0 ELSE @]

set_pose(s0, fs, pose_name, immediate) ==
    LET s == Lookup(s0, fs, pose_name)
    IN  IF pose_name \notin DOMAIN s.poses THEN s
        ELSE IF IgnoreSameTarget(s, pose_name) THEN s
        ELSE IF IgnoreSettled(s, pose_name) THEN s
        ELSE IF immediate
             THEN SwitchImmediately(CancelReturn(s, pose_name), pose_name)
             ELSE BeginTransition(CancelReturn(s, pose_name), pose_name)

----------------------------------------------------------------------------
(* AnimationController.update                                              *)

Min(a, b) == IF a < b THEN a ELSE b

(* a sign slip in the increment *)
Advance_Backwards(progress, duration, dt) ==
    IF duration <= 0 THEN ONE
    ELSE Min(ONE, progress - (dt * ONE) \div duration)

(* the progress is counted in frames: a third of the way per call, dt not *)
(* looked at                                                               *)
Advance_PerFrame(progress, duration, dt) ==
    IF duration <= 0 THEN ONE
    ELSE Min(ONE, progress + ONE \div 3)

(* lines 409-413: the progress after a frame of dt                         *)
Advance(progress, duration, dt) ==
    IF duration <= 0 THEN ONE
    ELSE Min(ONE, progress + (dt * ONE) \div duration)

(* lines 415-419: ease-in-out, as a numerator over ONE * ONE               *)
Eased(t) ==
    IF 2 * t < ONE THEN 2 * t * t
    ELSE ONE * ONE - 2 * (ONE - t) * (ONE - t)

(* _lerp and _lerp_angle, t a numerator over ONE * ONE                     *)
lerp(a, b, t) == a + ((b - a) * t) \div (ONE * ONE)

(* the difference is applied as it is *)
lerp_angle_long(a, b, t) == a + ((b - a) * t) \div (ONE * ONE)

lerp_angle(a, b, t) ==
    LET d0 == b - a
        diff == IF d0 > 180 * Q THEN d0 - 360 * Q
                ELSE IF d0 < -180 * Q THEN d0 + 360 * Q ELSE d0
    IN  a + (diff * t) \div (ONE * ONE)

(* lines 421-433: the parts of the target that the start snapshot has      *)
BlendedParts(s) == DOMAIN s.target_pose_data \cap DOMAIN s.start_pose_data

(* lines 428-432 index 'rotation' and 'position' of both entries           *)
BlendRaises(s) ==
    \E p \in BlendedParts(s) :
        \/ {"rotation", "position"} \ DOMAIN s.target_pose_data[p] # {}
        \/ {"rotation", "position"} \ DOMAIN s.start_pose_data[p] # {}

interpolated_pose(s, eased_t) ==
    [p \in BlendedParts(s) |->
        LET a == s.start_pose_data[p]
            b == s.target_pose_data[p]
        IN  [rotation |-> lerp_angle(a.rotation, b.rotation, eased_t),
             position |-> <<lerp(a.position[1], b.position[1], eased_t),
                            lerp(a.position[2], b.position[2], eased_t)>>]]

(* lines 437-440: the transition is over                                   *)
(* every pose arms the return *)
ArmsReturn_AnyPose(s) == s.auto_return

ArmsReturn(s) == s.auto_return /\ s.target_pose \in action_poses

Settle(s) ==
    IF s.transition_progress >= ONE
    THEN [s EXCEPT !.current_pose = s.target_pose,
                   !.return_timer =
                       IF ArmsReturn(s) THEN s.return_delay ELSE @]
    ELSE s

(* the start snapshot follows the skeleton through the blend *)
TransitionFrame_Resnapshots(s, dt) ==
    LET s1 == [s EXCEPT !.transition_progress =
                   Advance(s.transition_progress, s.transition_duration, dt)]
    IN  IF BlendRaises(s1) THEN [s1 EXCEPT !.raised = "KeyError"]
        ELSE LET sk == apply_pose(s1.skeleton,
                          interpolated_pose(s1, Eased(s1.transition_progress)))
             IN  Settle([s1 EXCEPT !.skeleton = sk,
                                   !.start_pose_data = get_current_pose_data(sk)])

TransitionFrame(s, dt) ==
    LET s1 == [s EXCEPT !.transition_progress =
                   Advance(s.transition_progress, s.transition_duration, dt)]
    IN  IF BlendRaises(s1) THEN [s1 EXCEPT !.raised = "KeyError"]
        ELSE Settle([s1 EXCEPT !.skeleton =
                 apply_pose(s1.skeleton,
                            interpolated_pose(s1, Eased(s1.transition_progress)))])

(* the countdown fires only once it is below zero *)
ReturnFrame_Strict(s, fs, dt) ==
    LET s1 == [s EXCEPT !.return_timer = @ - dt]
    IN  IF s1.return_timer < 0 THEN set_pose(s1, fs, "ready", FALSE) ELSE s1

(* lines 444-447 *)
ReturnFrame(s, fs, dt) ==
    LET s1 == [s EXCEPT !.return_timer = @ - dt]
    IN  IF s1.return_timer <= 0 THEN set_pose(s1, fs, "ready", FALSE) ELSE s1

(* math.sin of an angle counted in 1/3000 rad, in thousandths: the angle is *)
(* reduced to hundredths of a radian and Bhaskara's rational approximation *)
(* is used on each half period                                             *)
PI100 == 314

SinHalf(x) == (16000 * x * (PI100 - x))
                 \div (5 * PI100 * PI100 - 4 * x * (PI100 - x))

Sin1000(x) ==
    LET r == (x \div 30) % (2 * PI100)
    IN  IF r <= PI100 THEN SinHalf(r) ELSE 0 - SinHalf(r - PI100)

(* lines 468-484: the controller's own timing is put back                  *)
RestoreMeta(s) ==
    IF s.meta_applied_pose # "None" /\ s.meta_prev # {}
    THEN LET prev == CHOOSE m \in s.meta_prev : TRUE
         IN  [s EXCEPT !.transition_duration = prev.transition_duration,
                       !.auto_return = prev.auto_return,
                       !.return_delay = prev.return_delay,
                       !.meta_prev = {},
                       !.meta_applied_pose = "None"]
    ELSE s

(* lines 449-467 *)
HasReadyTorso(s, field) ==
    /\ "ready" \in DOMAIN s.poses
    /\ "torso" \in DOMAIN s.poses["ready"]
    /\ field \in DOMAIN s.poses["ready"]["torso"]

(* the sway is written to the torso's X *)
IdleFrame_SwaysX(s, dt) ==
    LET time == s.idle_time + idle_sway_speed * dt
        vertical_sway == (Sin1000(time) * idle_sway_amount) \div 1000
        base == s.poses["ready"]["torso"]
        s1 == [s EXCEPT !.idle_time = time]
        s2 == IF "torso" \in DOMAIN s.skeleton /\ HasReadyTorso(s, "position")
              THEN [s1 EXCEPT !.skeleton["torso"].local_position =
                        <<base.position[1] - vertical_sway, base.position[2]>>]
              ELSE s1
    IN  RestoreMeta(s2)

(* lines 458-459 assign the two elements of the list the torso holds: the *)
(* write reaches every holder of that list                                 *)
WriteTorsoPosition(s, position) ==
    LET list == s.skeleton["torso"].position_list
        s1 == [s EXCEPT !.skeleton["torso"].local_position = position]
    IN  IF list \in DOMAIN s.poses /\ "torso" \in DOMAIN s.poses[list]
        THEN [s1 EXCEPT !.poses[list]["torso"].position = position]
        ELSE s1

IdleFrame(s, dt) ==
    LET time == s.idle_time + idle_sway_speed * dt
        vertical_sway == (Sin1000(time) * idle_sway_amount) \div 1000
        base == s.poses["ready"]["torso"]
        s1 == [s EXCEPT !.idle_time = time]
        s2 == IF "torso" \in DOMAIN s.skeleton /\ HasReadyTorso(s, "position")
              THEN WriteTorsoPosition(s1,
                        <<base.position[1], base.position[2] - vertical_sway>>)
              ELSE s1
        s3 == IF "torso" \in DOMAIN s.skeleton /\ HasReadyTorso(s, "rotation")
              THEN [s2 EXCEPT !.skeleton["torso"].local_rotation = base.rotation]
              ELSE s2
    IN  RestoreMeta(s3)

(* the idle frame runs in every settled pose with no countdown *)
update_idles_anywhere(s, fs, dt) ==
    IF s.transition_progress < ONE THEN TransitionFrame(s, dt)
    ELSE IF s.return_timer > 0 THEN ReturnFrame(s, fs, dt)
    ELSE IdleFrame(s, dt)

update(s, fs, dt) ==
    IF s.transition_progress < ONE THEN TransitionFrame(s, dt)
    ELSE IF s.return_timer > 0 THEN ReturnFrame(s, fs, dt)
    ELSE IF s.current_pose = "ready" /\ s.target_pose = "ready"
         THEN IdleFrame(s, dt)
    ELSE s

----------------------------------------------------------------------------
(* The host: an AnimatedCharacter is built, then the frame loop and the    *)
(* pose editor call the controller.                                        *)

Call(kind, name, immediate, dt) ==
    [kind |-> kind, name |-> name, immediate |-> immediate, dt |-> dt]

(* AnimationController.__init__ followed by                                *)
(* AnimatedCharacter.__init__'s set_pose('ready', immediate=True)          *)
ModelParts == SelectSeq(StandardParts, LAMBDA e : e[1] \in PartNames)

NoCalc == [fn |-> "none"]

(* a scene with one character *)
NoPlayer == [current_pose |-> "None"]

Constructed ==
    [skeleton |-> Built(ModelParts, Len(ModelParts)),
     current_pose |-> "ready", target_pose |-> "ready",
     transition_progress |-> ONE,
     transition_duration |-> DefaultTransitionDuration,
     pose_meta |-> <<>>, meta_prev |-> {}, meta_applied_pose |-> "None",
     poses |-> get_all_poses({}),
     start_pose_data |-> <<>>, target_pose_data |-> <<>>,
     auto_return |-> TRUE, return_delay |-> DefaultReturnDelay,
     return_timer |-> 0, idle_time |-> 0, raised |-> "none"]

InitAs(s) ==
    /\ skeleton = s.skeleton
    /\ current_pose = s.current_pose
    /\ target_pose = s.target_pose
    /\ transition_progress = s.transition_progress
    /\ transition_duration = s.transition_duration
    /\ pose_meta = s.pose_meta
    /\ meta_prev = s.meta_prev
    /\ meta_applied_pose = s.meta_applied_pose
    /\ poses = s.poses
    /\ start_pose_data = s.start_pose_data
    /\ target_pose_data = s.target_pose_data
    /\ auto_return = s.auto_return
    /\ return_delay = s.return_delay
    /\ return_timer = s.return_timer
    /\ idle_time = s.idle_time
    /\ raised = s.raised

(* AnimatedCharacter.__init__ lines 147-271: the skeleton is built and    *)
(* registered, the controller made, the rest pose set and the world       *)
(* transforms computed                                                    *)
Init ==
    /\ LET s == set_pose(Constructed, {}, "ready", TRUE)
       IN  InitAs([s EXCEPT !.skeleton =
                      skeleton_update(s.skeleton, "torso", <<0, 0>>)])
    /\ index = PartNames
    /\ root = "torso"
    /\ root_offset = <<0, 0>>
    /\ drawn = <<>>
    /\ calc = NoCalc
    /\ player_2 = NoPlayer
    /\ files = {}
    /\ op = Call("init", "ready", TRUE, 0)
    /\ budget = MaxCalls

SetPose(pose_name, immediate) ==
    /\ budget > 0
    /\ Becomes(set_pose(Self, files, pose_name, immediate))
    /\ op' = Call("set_pose", pose_name, immediate, 0)
    /\ budget' = budget - 1
    /\ UNCHANGED <<files, body, calc, player_2>>

Update(dt) ==
    /\ budget > 0
    /\ LET s == update(Self, files, dt)
       IN  /\ s.transition_progress >= 0 - MaxRewind
           /\ s.return_timer <= MaxTimer
           /\ Becomes(s)
    /\ op' = Call("update", "", FALSE, dt)
    /\ budget' = budget - 1
    /\ UNCHANGED <<files, body, calc, player_2>>

(* main.py load_custom_pose, pose_editor_scene.py: the host reloads        *)
ReloadPoses ==
    /\ budget > 0
    /\ Becomes(reload_poses(Self, files))
    /\ op' = Call("reload_poses", "", FALSE, 0)
    /\ budget' = budget - 1
    /\ UNCHANGED <<files, body, calc, player_2>>

(* the pose editor saves assets/poses/pose_<name>.json                     *)
SavePoseFile(n) ==
    /\ budget > 0
    /\ n \notin files
    /\ files' = files \cup {n}
    /\ op' = Call("save", n, FALSE, 0)
    /\ raised' = "none"
    /\ budget' = budget - 1
    /\ UNCHANGED <<skeleton, ctl, body, calc, player_2>>

Next ==
    \/ \E n \in PoseNames, i \in BOOLEAN : SetPose(n, i)
    \/ \E dt \in DtValues : Update(dt)
    \/ ReloadPoses
    \/ \E n \in FileNames : SavePoseFile(n)

Spec == Init /\ [][Next]_vars

----------------------------------------------------------------------------
(* The frame loop of one action: the host configures transition_duration  *)
(* and return_delay on a new character, lets it idle for some frames,     *)
(* plays one action pose and from then on only calls update(dt) with      *)
(* dt > 0, every frame, until the character is back at rest.              *)

MaxIdleFrames == 3

ConfiguredDelays == {0, DefaultReturnDelay}
ConfiguredDurations == {0, DefaultTransitionDuration}
FrameDts == {12, 40}
PlayedPoses == {"punch", "kick"}

LiveInit ==
    /\ \E delay \in ConfiguredDelays, duration \in ConfiguredDurations :
          LET s == set_pose(Constructed, {}, "ready", TRUE)
          IN  InitAs([s EXCEPT
                        !.skeleton =
                            skeleton_update(s.skeleton, "torso", <<0, 0>>),
                        !.return_delay = delay,
                        !.transition_duration = duration])
    /\ index = PartNames
    /\ root = "torso"
    /\ root_offset = <<0, 0>>
    /\ drawn = <<>>
    /\ calc = NoCalc
    /\ player_2 = NoPlayer
    /\ files = {}
    /\ op = Call("init", "ready", TRUE, 0)
    /\ budget = MaxIdleFrames

AtSettledRest(s) ==
    /\ s.current_pose = "ready"
    /\ s.target_pose = "ready"
    /\ s.transition_progress = ONE

(* AnimatedCharacter.set_pose / play_action, once *)
Play(pose_name) ==
    /\ budget > 0
    /\ AtSettledRest(Self)
    /\ Becomes(set_pose(Self, files, pose_name, FALSE))
    /\ op' = Call("set_pose", pose_name, FALSE, 0)
    /\ budget' = 0
    /\ UNCHANGED <<files, body, calc, player_2>>

(* AnimatedCharacter.update: idle frames before the action, then every    *)
(* frame until the character rests again                                  *)
Frame(dt) ==
    /\ budget > 0 \/ ~AtSettledRest(Self)
    /\ Becomes(update(Self, files, dt))
    /\ op' = Call("update", "", FALSE, dt)
    /\ budget' = IF budget > 0 THEN budget - 1 ELSE 0
    /\ UNCHANGED <<files, body, calc, player_2>>

LiveNext ==
    \/ \E n \in PlayedPoses : Play(n)
    \/ \E dt \in FrameDts : Frame(dt)

SpecLive ==
    LiveInit /\ [][LiveNext]_vars /\ WF_vars(\E dt \in FrameDts : Frame(dt))

----------------------------------------------------------------------------
(* A host that builds and poses a skeleton by hand, as test_skeleton.py   *)
(* does: it starts with an empty Skeleton or with the standard one, makes *)
(* parts, registers them, applies poses, moves the root, updates and      *)
(* draws.                                                                 *)

MaxSkeletonCalls == 4

ExtraNames == {"tail", "hat"}

(* a pose that turns the root a quarter turn and puts the head at (10, 0) *)
QuarterTurn ==
    [p \in {"torso", "head"} |->
        CASE p = "torso" -> T(90, 0, 2)
          [] p = "head" -> T(0, 10, 0)]

AppliedPoses == {get_ready, QuarterTurn, LookUpFile}

Positions == {<<512 * Q, 384 * Q>>}

StartsBuilt == {0, Len(StandardParts)}

SkeletonInit ==
    /\ \E n \in StartsBuilt :
          /\ InitAs([Constructed EXCEPT !.skeleton = Built(StandardParts, n)])
          /\ index = {StandardParts[i][1] : i \in 1..n}
          /\ root = IF n = 0 THEN NoPart ELSE "torso"
    /\ root_offset = <<0, 0>>
    /\ drawn = <<>>
    /\ calc = NoCalc
    /\ player_2 = NoPlayer
    /\ files = {}
    /\ op = Call("init", "", FALSE, 0)
    /\ budget = MaxSkeletonCalls

SkeletonCall(kind, name) ==
    /\ budget > 0
    /\ budget' = budget - 1
    /\ op' = Call(kind, name, FALSE, 0)
    /\ raised' = "none"
    /\ UNCHANGED <<ctl, files, calc, player_2>>

(* BodyPart(name, image, pivot, parent) *)
Construct(name, parent) ==
    /\ name \notin DOMAIN skeleton
    /\ parent \in DOMAIN skeleton \cup {NoPart}
    /\ SkeletonCall("BodyPart", name)
    /\ skeleton' = BodyPart(skeleton, name, parent)
    /\ UNCHANGED body

(* Skeleton.set_root *)
SetRoot(name) ==
    /\ name \in DOMAIN skeleton
    /\ SkeletonCall("set_root", name)
    /\ root' = name
    /\ index' = index \cup {name}
    /\ UNCHANGED <<skeleton, root_offset, drawn>>

(* Skeleton.add_part *)
AddPart(name) ==
    /\ name \in DOMAIN skeleton
    /\ SkeletonCall("add_part", name)
    /\ index' = index \cup {name}
    /\ UNCHANGED <<skeleton, root, root_offset, drawn>>

(* Skeleton.apply_pose looks the names up in Skeleton.parts *)
ApplyPose(pose_data) ==
    /\ SkeletonCall("apply_pose", "")
    /\ LET held == apply_pose([p \in index |-> skeleton[p]], pose_data)
       IN  skeleton' = [p \in DOMAIN skeleton |->
                          IF p \in index THEN held[p] ELSE skeleton[p]]
    /\ UNCHANGED body

(* Skeleton.set_position *)
SetPosition(position) ==
    /\ SkeletonCall("set_position", "")
    /\ root_offset' = position
    /\ skeleton' = IF root # NoPart
                   THEN [skeleton EXCEPT ![root].world_position = position]
                   ELSE skeleton
    /\ UNCHANGED <<index, root, drawn>>

(* Skeleton.update *)
SkeletonUpdate ==
    /\ SkeletonCall("skeleton_update", "")
    /\ skeleton' = skeleton_update(skeleton, root, root_offset)
    /\ UNCHANGED body

(* Skeleton.draw *)
Draw ==
    /\ SkeletonCall("draw", "")
    /\ drawn' = skeleton_draw(skeleton, root)
    /\ UNCHANGED <<skeleton, index, root, root_offset>>

SkeletonNext ==
    \/ \E name \in ExtraNames \cup {"torso", "head"},
          parent \in {NoPart, "torso", "head", "left_thigh"} :
          Construct(name, parent)
    \/ \E name \in {"torso", "head", "tail", "left_thigh"} : SetRoot(name)
    \/ \E name \in {"torso", "head", "tail"} : AddPart(name)
    \/ \E pose_data \in AppliedPoses : ApplyPose(pose_data)
    \/ \E position \in Positions : SetPosition(position)
    \/ SkeletonUpdate
    \/ Draw

SpecSkeleton == SkeletonInit /\ [][SkeletonNext]_vars

----------------------------------------------------------------------------
(* _lerp_angle called alone, on rotations of (-180, 180] and on the eased *)
(* parameters of a few progress values                                    *)

Rotations == {r * Q : r \in {-170, -90, -10, 0, 10, 90, 170, 180}}
EasedValues == {Eased(t) : t \in {0, 90, 180, 270, ONE}}

LerpInit ==
    /\ InitAs(Constructed)
    /\ index = PartNames
    /\ root = "torso"
    /\ root_offset = <<0, 0>>
    /\ drawn = <<>>
    /\ files = {}
    /\ op = Call("init", "", FALSE, 0)
    /\ budget = 0
    /\ player_2 = NoPlayer
    /\ \E start \in Rotations, target \in Rotations, t \in EasedValues :
          calc = [fn |-> "arguments", start |-> start, target |-> target,
                  t |-> t, result |-> 0]

LerpAngle ==
    /\ calc.fn = "arguments"
    /\ calc' = [calc EXCEPT
                  !.fn = "lerp_angle",
                  !.result = lerp_angle(calc.start, calc.target, calc.t)]
    /\ UNCHANGED <<skeleton, body, player_2, ctl, files, op, raised, budget>>

LerpNext == LerpAngle

SpecLerp == LerpInit /\ [][LerpNext]_vars

----------------------------------------------------------------------------
(* GameScene: two players, each an AnimatedCharacter with a skeleton and   *)
(* a controller of its own.  player_1 lives in the controller's variables, *)
(* player_2 in one record; the pose files are the one thing both read.     *)

PairPoses == {"ready", "punch"}

PairDts == {12, 40}

PairCalls ==
    {Call("set_pose", n, i, 0) : n \in PairPoses, i \in BOOLEAN}
        \cup {Call("update", "", FALSE, dt) : dt \in PairDts}

Players == {1, 2}

Characters == <<[Self EXCEPT !.raised = raised], player_2>>

(* both controllers are bound to the first character's skeleton *)
ControllerSkeleton_Shared(k) == 1

(* AnimatedCharacter._load_and_setup_skeleton: self.skeleton = Skeleton()  *)
(* and AnimationController(self.skeleton): controller k holds skeleton k   *)
ControllerSkeleton(k) == k

(* one call on a controller *)
Step(s, fs, c) ==
    IF c.kind = "set_pose" THEN set_pose(s, fs, c.name, c.immediate)
    ELSE update(s, fs, c.dt)

(* the characters after character k's controller has served call c: the    *)
(* controller reads and writes the skeleton it is bound to                 *)
After(w, fs, k, c) ==
    LET bound == ControllerSkeleton(k)
        s == Step([w[k] EXCEPT !.skeleton = w[bound].skeleton,
                               !.raised = "none"], fs, c)
    IN  [j \in Players |->
            IF j = k
            THEN IF bound = k THEN s ELSE [s EXCEPT !.skeleton = w[k].skeleton]
            ELSE IF j = bound THEN [w[j] EXCEPT !.skeleton = s.skeleton]
            ELSE w[j]]

PairInit ==
    /\ LET s == set_pose(Constructed, {}, "ready", TRUE)
           built == [s EXCEPT !.skeleton =
                        skeleton_update(s.skeleton, "torso", <<0, 0>>)]
       IN  InitAs(built) /\ player_2 = built
    /\ index = PartNames
    /\ root = "torso"
    /\ root_offset = <<0, 0>>
    /\ drawn = <<>>
    /\ calc = NoCalc
    /\ files = {}
    /\ op = Call("init", "ready", TRUE, 0)
    /\ budget = MaxPairCalls

PlayerCall(k, c) ==
    /\ budget > 0
    /\ LET w == After(Characters, files, k, c)
       IN  Becomes(w[1]) /\ player_2' = w[2]
    /\ op' = [kind |-> c.kind, name |-> c.name, immediate |-> c.immediate,
              dt |-> c.dt, player |-> k]
    /\ budget' = budget - 1
    /\ UNCHANGED <<files, body, calc>>

PlayerSetPose(k, n, i) == PlayerCall(k, Call("set_pose", n, i, 0))

(* GameScene.update: self.player_1.update(dt); self.player_2.update(dt)    *)
PlayerUpdate(k, dt) == PlayerCall(k, Call("update", "", FALSE, dt))

PairNext ==
    \/ \E k \in Players, n \in PairPoses, i \in BOOLEAN : PlayerSetPose(k, n, i)
    \/ \E k \in Players, dt \in PairDts : PlayerUpdate(k, dt)

SpecPair == PairInit /\ [][PairNext]_vars

----------------------------------------------------------------------------
(* Properties.  op' names the call a step makes, so an action formula can  *)
(* speak about one kind of call.                                           *)

Calls(kind) == op'.kind = kind

Transitioning == transition_progress < ONE
Settled == transition_progress >= ONE

SameFrame == UNCHANGED <<skeleton, current_pose, target_pose,
                         transition_progress, start_pose_data,
                         target_pose_data, return_timer, idle_time>>

(* C1: while a transition to P is in progress, a non-immediate set_pose(P) *)
(* changes nothing, and over update(dt > 0) calls and repeated set_pose(P) *)
(* calls the progress of that transition never decreases and its target    *)
(* stays P.                                                                *)
C1_SameTargetIgnored ==
    [][/\ (Calls("set_pose") /\ ~op'.immediate /\ op'.name = target_pose
             /\ Transitioning)
          => SameFrame
       /\ (Transitioning
             /\ \/ Calls("update") /\ op'.dt > 0
                \/ Calls("set_pose") /\ ~op'.immediate
                     /\ op'.name = target_pose)
          => /\ transition_progress' >= transition_progress
             /\ target_pose' = target_pose]_vars

C1_Witness ==
    /\ op.kind = "set_pose" /\ ~op.immediate /\ op.name = target_pose
    /\ transition_progress > 0 /\ transition_progress < ONE

(* C2: once an action pose has settled with auto-return on (the timer is   *)
(* armed with return_delay in the frame that settles), one update of       *)
(* dt = return_delay starts a non-immediate transition back to 'ready':    *)
(* target_pose is 'ready', the progress is 0, current_pose is still the    *)
(* action.                                                                 *)
C2_AutoReturnRoundTrip ==
    [][/\ (Calls("update") /\ Transitioning /\ transition_progress' >= ONE
             /\ raised' = "none"
             /\ auto_return /\ target_pose \in action_poses)
          => /\ current_pose' = target_pose
             /\ return_timer' = return_delay
       /\ (Calls("update") /\ Settled /\ current_pose \in action_poses
             /\ return_timer > 0 /\ return_timer = return_delay
             /\ op'.dt = return_delay)
          => /\ target_pose' = "ready"
             /\ transition_progress' = 0
             /\ current_pose' = current_pose]_vars

C2_Witness ==
    /\ op.kind = "update" /\ op.dt = return_delay
    /\ current_pose \in action_poses
    /\ target_pose = "ready" /\ transition_progress = 0

(* C3 as claimed: every non-immediate set_pose(N) with a known N that the  *)
(* two ignore rules let through ends with return_timer 0, target N,        *)
(* progress 0 and the start snapshot equal to the skeleton.                *)
Accepted(n) ==
    /\ n \in DOMAIN poses'
    /\ ~IgnoreSameTarget(Self, n)
    /\ ~IgnoreSettled(Self, n)

StartsFromSkeleton ==
    /\ return_timer' = 0
    /\ target_pose' = op'.name
    /\ transition_progress' = 0
    /\ start_pose_data' = get_current_pose_data(skeleton)

C3_Claimed ==
    [][(Calls("set_pose") /\ ~op'.immediate /\ Accepted(op'.name))
          => StartsFromSkeleton]_vars

(* C3, amended: that holds when N is not already the target; when N is the *)
(* target (no transition is in progress then) the call starts no           *)
(* transition: it clears return_timer and leaves target_pose, the          *)
(* progress, both snapshots and the skeleton as they were.                 *)
C3_Amended ==
    [][(Calls("set_pose") /\ ~op'.immediate /\ Accepted(op'.name))
          => IF op'.name # target_pose
             THEN StartsFromSkeleton
             ELSE /\ Settled
                  /\ return_timer' = 0
                  /\ UNCHANGED <<skeleton, current_pose, target_pose,
                                 transition_progress, start_pose_data,
                                 target_pose_data>>]_vars

C3_Witness ==
    /\ op.kind = "set_pose" /\ ~op.immediate /\ op.name = target_pose
    /\ transition_progress = 0 /\ return_timer = 0
    /\ start_pose_data = get_current_pose_data(skeleton)
    /\ start_pose_data # get_current_pose_data(apply_pose(skeleton, poses[current_pose]))

(* C4 as claimed: set_pose(N, immediate=true) with a known N always ends   *)
(* with current_pose = target_pose = N, progress 1.0 and every part that   *)
(* pose N names holding the pose's rotation and position.                  *)
HoldsPose(sk, pose_data) ==
    \A p \in DOMAIN sk \cap DOMAIN pose_data :
        /\ "rotation" \in DOMAIN pose_data[p]
              => sk[p].local_rotation = pose_data[p].rotation
        /\ "position" \in DOMAIN pose_data[p]
              => sk[p].local_position = pose_data[p].position

C4_Claimed ==
    [][(Calls("set_pose") /\ op'.immediate /\ op'.name \in DOMAIN poses')
          => /\ current_pose' = op'.name
             /\ target_pose' = op'.name
             /\ transition_progress' = ONE
             /\ HoldsPose(skeleton', poses'[op'.name])]_vars

(* C5 as claimed: set_pose('ready', immediate=true) leaves the progress at *)
(* 1.0, and a second such call right after the first leaves every local    *)
(* transform as the first call left it.                                    *)
C5_Claimed ==
    [][(Calls("set_pose") /\ op'.immediate /\ op'.name = "ready")
          => /\ transition_progress' = ONE
             /\ (op = op' => skeleton' = skeleton)]_vars

(* C6: settled in a pose P that is not 'ready', set_pose(P) changes        *)
(* nothing; a pending return_timer is neither cancelled nor restarted.     *)
C6_SettledIgnored ==
    [][(Calls("set_pose") /\ op'.name = current_pose /\ current_pose # "ready"
          /\ transition_progress = ONE)
          => /\ SameFrame
             /\ UNCHANGED <<auto_return, return_delay, transition_duration>>
      ]_vars

C6_Witness ==
    /\ op.kind = "set_pose" /\ op.name = current_pose /\ current_pose # "ready"
    /\ transition_progress = ONE
    /\ return_timer > 0

(* C7: set_pose(N), immediate or not, with a name N that is unknown even   *)
(* after the reload does not raise and leaves current_pose, target_pose,   *)
(* the progress, return_timer, the idle phase, both snapshots and the      *)
(* skeleton unchanged.                                                     *)
C7_UnknownIsNoOp ==
    [][(Calls("set_pose") /\ op'.name \notin DOMAIN poses')
          => raised' = "none" /\ SameFrame]_vars

C7_Witness ==
    /\ op.kind = "set_pose" /\ op.name \notin DOMAIN poses
    /\ files \subseteq DOMAIN poses /\ files # {}
    /\ return_timer > 0

(* C8 as claimed: update(dt) with dt <= 0 changes neither the progress,    *)
(* return_timer, the idle phase, the pose labels nor any local transform.  *)
C8_Claimed ==
    [][(Calls("update") /\ op'.dt <= 0)
          => UNCHANGED <<transition_progress, return_timer, idle_time,
                         current_pose, target_pose, skeleton>>]_vars

(* C9 as claimed: update never raises on account of pose data.             *)
C9_Claimed == op.kind = "update" => raised = "none"

(* C10 as claimed: transition_progress lies in [0, 1].                     *)
C10_Claimed == 0 <= transition_progress /\ transition_progress <= ONE

----------------------------------------------------------------------------
(* The skeleton claims *)

SettledRest ==
    /\ current_pose = "ready"
    /\ target_pose = "ready"
    /\ transition_progress = ONE

AtRest == SettledRest /\ return_timer <= 0

Abs(x) == IF x < 0 THEN 0 - x ELSE x

SameLocal(p) ==
    /\ skeleton'[p].local_position = skeleton[p].local_position
    /\ skeleton'[p].local_rotation = skeleton[p].local_rotation

(* C11: while the controller is settled at rest with no return timer      *)
(* pending, an update(dt) leaves the local transform of every part other  *)
(* than the torso unchanged, leaves the torso's local X and rotation      *)
(* unchanged, and puts the torso's local Y within idle_sway_amount of the *)
(* rest pose's torso Y.                                                   *)
C11_IdleSwayScope ==
    [][(Calls("update") /\ AtRest)
          => /\ \A p \in DOMAIN skeleton \ {"torso"} : SameLocal(p)
             /\ skeleton'["torso"].local_position[1]
                    = skeleton["torso"].local_position[1]
             /\ skeleton'["torso"].local_rotation
                    = skeleton["torso"].local_rotation
             /\ Abs(skeleton'["torso"].local_position[2]
                      - poses["ready"]["torso"].position[2])
                    <= idle_sway_amount]_vars

C11_Witness ==
    /\ op.kind = "update"
    /\ AtRest
    /\ idle_time # 0
    /\ skeleton["torso"].local_position[2]
          # poses["ready"]["torso"].position[2]

(* C12: with auto-return enabled, once a non-immediate set_pose to an     *)
(* action pose is accepted and only update(dt), dt > 0, is called from    *)
(* then on, the controller eventually is settled at rest, whatever        *)
(* non-negative return_delay and transition_duration were configured.     *)
C12_Claimed ==
    (op.kind = "set_pose" /\ auto_return /\ target_pose \in action_poses)
        ~> SettledRest

(* the transform the parent's gives a node that has a parent *)
FollowsParent(nodes, n) ==
    LET parent == nodes[nodes[n].parent]
        rotated == rotate(nodes[n].local_position, parent.world_rotation)
    IN  /\ nodes[n].world_rotation
              = parent.world_rotation + nodes[n].local_rotation
        /\ nodes[n].world_position
              = <<parent.world_position[1] + rotated[1],
                  parent.world_position[2] + rotated[2]>>

(* C13: after Skeleton.update() the root has world_rotation ==            *)
(* local_rotation and world_position == root_offset + local_position, and *)
(* every other part of the skeleton has world_rotation ==                 *)
(* parent.world_rotation + local_rotation and world_position ==           *)
(* parent.world_position + rotate(local_position, parent.world_rotation), *)
(* the parent's values being those of the same update; with the root at   *)
(* 90 degrees a child at local (10, 0) lies at root.world_position +      *)
(* (0, 10).                                                               *)
C13_Claimed ==
    [][(Calls("skeleton_update") /\ root # NoPart)
          => LET nodes == skeleton'
             IN  /\ nodes[root].world_rotation = nodes[root].local_rotation
                 /\ nodes[root].world_position
                       = <<root_offset[1] + nodes[root].local_position[1],
                           root_offset[2] + nodes[root].local_position[2]>>
                 /\ \A n \in index \ {root} :
                       nodes[n].parent # NoPart => FollowsParent(nodes, n)
                 /\ \A n \in index \ {root} :
                       (/\ nodes[n].parent = root
                        /\ nodes[root].world_rotation = 90 * Q
                        /\ nodes[n].local_position = <<10 * Q, 0>>)
                       => nodes[n].world_position
                            = <<nodes[root].world_position[1],
                                nodes[root].world_position[2] + 10 * Q>>]_vars

RECURSIVE Walk(_, _)
RECURSIVE WalkEach(_, _, _)

WalkEach(nodes, list, i) ==
    IF i > Len(list) THEN <<>>
    ELSE Walk(nodes, list[i]) \o WalkEach(nodes, list, i + 1)

(* the pre-order walk over children *)
Walk(nodes, name) == <<name>> \o WalkEach(nodes, nodes[name].children, 1)

Range(seq) == {seq[i] : i \in 1..Len(seq)}

(* C16: in a skeleton that has a root, exactly one part has no parent and *)
(* the pre-order walk from the root visits the parts of Skeleton.parts,   *)
(* all of them and no other, each once.                                   *)
C16_Claimed ==
    root # NoPart
      => /\ Cardinality({n \in DOMAIN skeleton :
                            skeleton[n].parent = NoPart}) = 1
         /\ LET walk == Walk(skeleton, root)
            IN  /\ Range(walk) = index
                /\ Len(walk) = Cardinality(index)

(* C17: set_root(node) raises and leaves Skeleton.root and Skeleton.parts *)
(* as they were when the skeleton already has a root and when node has a  *)
(* parent.                                                                *)
C17_Claimed ==
    [][(Calls("set_root")
          /\ (root # NoPart \/ skeleton[op'.name].parent # NoPart))
          => (raised' # "none" /\ root' = root /\ index' = index)]_vars

StandardShape ==
    /\ root = "torso"
    /\ DOMAIN skeleton = {StandardParts[i][1] : i \in 1..Len(StandardParts)}
    /\ \A i \in 1..Len(StandardParts) :
          skeleton[StandardParts[i][1]].parent = StandardParts[i][2]

Place(seq, x) == CHOOSE i \in 1..Len(seq) : seq[i] = x

(* C18: one Skeleton.draw of the standard skeleton draws every part once: *)
(* the upper arms and the thighs first, each shin right after its thigh,  *)
(* then the torso, then the head, then the two forearms.                  *)
C18_DrawOrder ==
    [][(Calls("draw") /\ StandardShape)
          => LET d == drawn'
             IN  /\ Len(d) = Cardinality(DOMAIN skeleton)
                 /\ Range(d) = DOMAIN skeleton
                 /\ Range(SubSeq(d, 1, 6))
                       = back_parts \cup {"left_shin", "right_shin"}
                 /\ Place(d, "left_shin") = Place(d, "left_thigh") + 1
                 /\ Place(d, "right_shin") = Place(d, "right_thigh") + 1
                 /\ d[7] = "torso"
                 /\ d[8] = "head"
                 /\ {d[9], d[10]} = front_parts]_vars

C18_Witness ==
    /\ op.kind = "draw"
    /\ StandardShape
    /\ drawn = <<"left_upper_arm", "right_upper_arm", "left_thigh",
                 "left_shin", "right_thigh", "right_shin", "torso", "head",
                 "left_forearm", "right_forearm">>

(* C14: for start and target in (-180, 180] the result of _lerp_angle is  *)
(* start + diff * e for a diff that equals target - start up to a         *)
(* multiple of 360 and is at most 180 in magnitude; at e = 0 the result   *)
(* is start, at e = 1 it equals target modulo 360, and from 170 to -170   *)
(* at e = 0.5 it is 180.                                                  *)
C14_ShorterArc ==
    calc.fn = "lerp_angle"
      => /\ \E diff \in (0 - 180 * Q)..(180 * Q) :
               /\ (diff - (calc.target - calc.start)) % (360 * Q) = 0
               /\ calc.result
                     = calc.start + (diff * calc.t) \div (ONE * ONE)
         /\ calc.t = 0 => calc.result = calc.start
         /\ calc.t = ONE * ONE
               => (calc.result - calc.target) % (360 * Q) = 0
         /\ (/\ calc.start = 170 * Q
             /\ calc.target = (0 - 170) * Q
             /\ 2 * calc.t = ONE * ONE)
               => calc.result = 180 * Q

C14_Witness ==
    /\ calc.fn = "lerp_angle"
    /\ calc.start = 170 * Q
    /\ calc.target = (0 - 170) * Q
    /\ 2 * calc.t = ONE * ONE
    /\ calc.result = 180 * Q

(* C15: in every reachable state the local_rotation of every part lies   *)
(* in (-180, 180].                                                        *)
C15_Claimed ==
    \A p \in DOMAIN skeleton :
        /\ skeleton[p].local_rotation > (0 - 180) * Q
        /\ skeleton[p].local_rotation <= 180 * Q

SameWorld ==
    \A p \in DOMAIN skeleton :
        /\ skeleton'[p].world_position = skeleton[p].world_position
        /\ skeleton'[p].world_rotation = skeleton[p].world_rotation

(* the pose an immediate set_pose(name) applies, if it knows the name *)
NamedPose == IF op'.name \in DOMAIN poses' THEN poses'[op'.name] ELSE <<>>

Complete(pose_data) ==
    \A p \in DOMAIN pose_data \cap DOMAIN skeleton :
        {"rotation", "position"} \subseteq DOMAIN pose_data[p]

(* C19: an immediate set_pose and every frame of a transition write the   *)
(* local transform of no part the pose does not name, write no            *)
(* world_position and no world_rotation, and a name of the pose that has  *)
(* no part in the skeleton is no error.                                   *)
C19_UnnamedPartsKept ==
    [][/\ (Calls("set_pose") /\ op'.immediate)
             => /\ \A p \in DOMAIN skeleton \ DOMAIN NamedPose : SameLocal(p)
                /\ SameWorld
                /\ raised' = "none"
       /\ (Calls("update") /\ Transitioning)
             => /\ \A p \in DOMAIN skeleton \ DOMAIN target_pose_data :
                      SameLocal(p)
                /\ SameWorld
                /\ Complete(target_pose_data) => raised' = "none"]_vars

C19_Witness ==
    /\ op.kind = "set_pose"
    /\ op.immediate
    /\ op.name = "custom"
    /\ "custom" \in DOMAIN poses
    /\ "tail" \in DOMAIN poses["custom"]
    /\ "tail" \notin DOMAIN skeleton
    /\ skeleton["right_upper_arm"].local_rotation
          = poses["custom"]["right_upper_arm"].rotation
    /\ skeleton["torso"].local_position # <<0, 0>>
    /\ raised = "none"

(* the controller state a split of the elapsed time is compared on *)
Agree(s1, s2) ==
    /\ s1.transition_progress = s2.transition_progress
    /\ s1.current_pose = s2.current_pose
    /\ s1.target_pose = s2.target_pose
    /\ s1.return_timer = s2.return_timer

(* the cuts of dt in two positive parts, at every 1/75 s *)
Cuts(dt) == {d1 \in 1..(dt - 1) : d1 % 4 = 0}

(* update(dt) gave what update(d1) then update(dt - d1) would have given, *)
(* for every cut of dt                                                    *)
SplitsAgree ==
    \A d1 \in Cuts(op'.dt) :
        Agree(Self', update(update(Self, files, d1), files, op'.dt - d1))

(* a non-immediate set_pose from rest has just started a transition *)
JustStarted ==
    /\ op.kind = "set_pose"
    /\ ~op.immediate
    /\ current_pose = "ready"
    /\ target_pose = op.name
    /\ target_pose # "ready"
    /\ transition_progress = 0

(* dt does not carry the transition past its end *)
WithinTransition(dt) ==
    /\ transition_duration > 0
    /\ transition_progress < ONE
    /\ transition_progress + (dt * ONE) \div transition_duration <= ONE

(* C20: after a non-immediate set_pose from rest, one update(T) leaves    *)
(* transition_progress, current_pose, target_pose and return_timer as any *)
(* split of T into positive parts does, whatever T.                       *)
C20_Claimed ==
    [][(Calls("update") /\ op'.dt > 0 /\ JustStarted) => SplitsAgree]_vars

(* C20, amended: that holds for a T that ends within the transition or at *)
(* its end, from any point of a transition.                               *)
C20_Amended ==
    [][(Calls("update") /\ op'.dt > 0 /\ WithinTransition(op'.dt))
          => SplitsAgree]_vars

C20_Witness ==
    /\ op.kind = "update"
    /\ op.dt = 12
    /\ current_pose = "ready"
    /\ target_pose = "punch"
    /\ transition_progress = (12 * ONE) \div DefaultTransitionDuration
    /\ transition_duration = DefaultTransitionDuration

----------------------------------------------------------------------------
(* The controller claims, continued *)

(* settled in a pose that is not the rest pose and does not return by     *)
(* itself                                                                 *)
SettledOther ==
    /\ transition_progress = ONE
    /\ current_pose = target_pose
    /\ current_pose # "ready"
    /\ (current_pose \notin action_poses \/ ~auto_return)

(* C22: while the controller is settled in a pose that is not the rest    *)
(* pose and is not auto-returning, an update(dt) changes no controller    *)
(* field and no local transform of the skeleton.                          *)
C22_SettledOtherHolds ==
    [][(Calls("update") /\ SettledOther)
          => (UNCHANGED ctl /\ \A p \in DOMAIN skeleton : SameLocal(p))]_vars

C22_Witness ==
    /\ op.kind = "update"
    /\ op.dt > 0
    /\ SettledOther
    /\ current_pose = "custom"
    /\ ~auto_return

(* C23: the update call in which transition_progress reaches 1.0 makes    *)
(* current_pose the target pose and leaves return_timer at return_delay   *)
(* if that pose is an action pose and auto-return is enabled, at 0        *)
(* otherwise; the countdown takes nothing off in that call.               *)
C23_Claimed ==
    [][(Calls("update") /\ Transitioning /\ transition_progress' >= ONE)
          => /\ current_pose' = target_pose
             /\ target_pose' = target_pose
             /\ return_timer' = IF target_pose \in action_poses /\ auto_return
                                THEN return_delay ELSE 0]_vars

(* C25: idle_time changes in two places only: an update(dt) at rest with  *)
(* no return timer pending adds idle_sway_speed * dt, and an accepted     *)
(* set_pose to a pose other than 'ready' sets it to 0; every other update *)
(* and set_pose leaves it as it is.                                       *)
C25_IdlePhase ==
    [][/\ Calls("update")
             => idle_time' = IF AtRest
                             THEN idle_time + idle_sway_speed * op'.dt
                             ELSE idle_time
       /\ Calls("set_pose")
             => idle_time' = IF Accepted(op'.name) /\ op'.name # "ready"
                             THEN 0 ELSE idle_time]_vars

C25_Witness ==
    /\ op.kind = "set_pose"
    /\ op.name = "ready"
    /\ AtRest
    /\ idle_time > 0

(* C26: once the controller is settled at rest and has run an idle frame, *)
(* transition_duration, auto_return and return_delay have the values the  *)
(* controller was made with, whatever poses with metadata were requested  *)
(* before.                                                                *)
C26_Claimed ==
    [][(Calls("update") /\ AtRest)
          => /\ transition_duration' = Constructed.transition_duration
             /\ auto_return' = Constructed.auto_return
             /\ return_delay' = Constructed.return_delay]_vars

(* C27: whenever transition_progress >= 1.0, current_pose == target_pose. *)
C27_Claimed == transition_progress >= ONE => current_pose = target_pose

(* C28: whenever return_timer > 0 the controller is settled, with         *)
(* current_pose == target_pose an action pose; and every accepted         *)
(* set_pose leaves return_timer at 0.                                     *)
C28_TimerOnlySettled ==
    [][/\ return_timer' > 0
             => /\ transition_progress' >= ONE
                /\ current_pose' = target_pose'
                /\ current_pose' \in action_poses
       /\ (Calls("set_pose") /\ Accepted(op'.name)) => return_timer' = 0]_vars

C28_Witness ==
    /\ op.kind = "update"
    /\ return_timer > 0
    /\ return_timer < return_delay
    /\ current_pose = "kick"

(* settled in an action pose with no return timer running *)
(* C24: a blended set_pose(N) that is accepted while a transition is in   *)
(* progress takes the start snapshot from the skeleton's local transforms  *)
(* of that instant and moves no part; an update that does not itself fire  *)
(* the return to 'ready' leaves the start and the target snapshot as they  *)
(* were, whatever it does to the skeleton.                                 *)
ReturnFires == Settled /\ return_timer > 0 /\ return_timer <= op'.dt

C24_SnapshotPerTransition ==
    [][/\ (/\ Calls("set_pose")
            /\ ~op'.immediate
            /\ Transitioning
            /\ Accepted(op'.name))
             => /\ start_pose_data' = get_current_pose_data(skeleton)
                /\ skeleton' = skeleton
       /\ (Calls("update") /\ ~ReturnFires)
             => UNCHANGED <<start_pose_data, target_pose_data>>]_vars

(* a part of the start snapshot stands at a rotation no pose of the        *)
(* library has: the snapshot was taken in the middle of a blend            *)
TakenMidBlend ==
    \E p \in DOMAIN start_pose_data :
        \A n \in DOMAIN poses :
            /\ p \in DOMAIN poses[n]
            /\ "rotation" \in DOMAIN poses[n][p]
            /\ poses[n][p].rotation # start_pose_data[p].rotation

C24_Witness ==
    /\ op.kind = "update"
    /\ transition_progress < ONE
    /\ transition_progress > 0
    /\ TakenMidBlend
    /\ start_pose_data # get_current_pose_data(skeleton)

(* C21: a set_pose or an update on one player leaves the other player's   *)
(* controller fields, pose data and skeleton as they were, and gives the   *)
(* player it is made on the state it would give had the other player made  *)
(* any call, or none, just before: the players' calls commute, so each     *)
(* player ends every interleaving as it ends its own calls made alone.     *)
C21_Independent ==
    [][\A k \in Players :
          op'.player = k
             => /\ Characters'[3 - k] = Characters[3 - k]
                /\ Characters'[k] = After(Characters, files, k, op')[k]
                /\ \A b \in PairCalls :
                      After(After(Characters, files, 3 - k, b),
                            files, k, op')[k] = Characters'[k]]_vars

C21_Witness ==
    /\ "player" \in DOMAIN op
    /\ op.player = 2
    /\ op.kind = "update"
    /\ player_2.target_pose = "punch"
    /\ player_2.transition_progress > 0
    /\ player_2.transition_progress < ONE
    /\ target_pose = "ready"
    /\ idle_time > 0
    /\ skeleton # player_2.skeleton

(* C30: no set_pose and no update changes a pose the library holds: every  *)
(* pose of poses is in poses after the call with the same rotations and    *)
(* positions, and no part of the skeleton holds a list of the library, so  *)
(* the idle frame's write in place stays in the skeleton.                  *)
C30_LibraryKept ==
    [][(Calls("set_pose") \/ Calls("update"))
          => /\ \A n \in DOMAIN poses :
                   n \in DOMAIN poses' /\ poses'[n] = poses[n]
             /\ \A p \in DOMAIN skeleton' :
                   skeleton'[p].position_list = "own"]_vars

C30_Witness ==
    /\ op.kind = "update"
    /\ current_pose = "ready"
    /\ target_pose = "ready"
    /\ transition_progress >= ONE
    /\ idle_time > 0
    /\ skeleton["torso"].local_position # poses["ready"]["torso"].position
    /\ poses["ready"] = DefaultPoses["ready"]

HeldAction ==
    /\ current_pose = target_pose
    /\ current_pose \in action_poses
    /\ transition_progress = ONE
    /\ return_timer = 0

(* C29: an accepted set_pose(A, immediate) to an action pose A leaves the *)
(* controller settled in A with return_timer 0, and every update(dt) made *)
(* in that state leaves it there, auto-return enabled or not.             *)
C29_ImmediateNeverReturns ==
    [][/\ (/\ Calls("set_pose")
            /\ op'.immediate
            /\ Accepted(op'.name)
            /\ op'.name \in action_poses)
             => (HeldAction' /\ current_pose' = op'.name)
       /\ (Calls("update") /\ HeldAction)
             => (HeldAction' /\ current_pose' = current_pose)]_vars

C29_Witness ==
    /\ op.kind = "update"
    /\ op.dt > 0
    /\ HeldAction
    /\ current_pose = "punch"
    /\ auto_return

====
